---- MODULE Spec2Model ----
(***************************************************************************)
(* Model of cpp_nodiscard_errors.cpp: the [[nodiscard]] enumeration        *)
(* ErrorCode, the three stub operations OpenFile, SendEmail and SystemCall *)
(* and the driver main, which checks the result of the first two calls and *)
(* leaves the result of the third one unexamined.                          *)
(*                                                                         *)
(* Three next-state relations are given over the same variables:           *)
(*   Next       main with the stubs as written (Spec, FairSpec);           *)
(*   NextAny    main with each call allowed to return any ErrorCode, the   *)
(*              hypothesis of the error-path statements (SpecAny,          *)
(*              FairSpecAny);                                              *)
(*   NextCalls  the three stubs applied in any order, any number of times  *)
(*              up to MaxCalls, to any text arguments (SpecCalls).         *)
(* The text literals of main are generalised to the elements of Texts,     *)
(* which contains them: the stubs ignore their arguments, and main is      *)
(* checked for every choice.                                               *)
(***************************************************************************)
EXTENDS Integers, Sequences, FiniteSets

\* enum class [[nodiscard]] ErrorCode { OK, Fatal, System, FileIssue }
ErrorCode == {"OK", "Fatal", "System", "FileIssue"}

\* The std::string_view arguments: the four literals of main and the
\* empty text.
Texts == {"", "test.txt", "joe", "hello", "cd .."}

\* How many stub applications a behaviour of SpecCalls makes.
MaxCalls == 3

VARIABLES
    pc,        \* position of main ("L26" .. "end33"), or "apply" in SpecCalls
    ret,       \* the value the last call returned, "none" before any call
    exitCode,  \* the process exit code, -1 while main has not returned
    log,       \* the calls made so far: [op, args, result], in order
    disp,      \* what main did with each returned value of log
    stdout     \* what the process has written

vars == <<pc, ret, exitCode, log, disp, stdout>>

----------------------------------------------------------------------------
(* The stub operations, lines 10-22: each body is a single return.         *)

OpenFile_RejectsEmpty(fileName) ==
    IF fileName = "" THEN "FileIssue" ELSE "OK"

OpenFile(fileName) ==
    "OK"

SendEmail_Stateful(sendto, text) ==
    IF \E i \in 1..Len(log) : log[i].op = "SendEmail" THEN "System" ELSE "OK"

SendEmail(sendto, text) ==
    "OK"

SystemCall(text) ==
    "OK"

\* A call of operation op with arguments args returns r to its caller: the
\* stubs touch nothing else.
Deliver(op, args, r) ==
    /\ ret' = r
    /\ log' = Append(log, [op |-> op, args |-> args, result |-> r])
    /\ UNCHANGED <<exitCode, stdout>>

----------------------------------------------------------------------------
(* main, lines 24-33.                                                      *)

Terminated == pc \in {"ret27", "ret30", "end33"}

\* The last returned value is consumed by the condition of an if.
Examine ==
    disp' = [disp EXCEPT ![Len(disp)] = "checked"]

\* line 26: the call OpenFile("test.txt")
CallOpenFile ==
    /\ pc = "L26"
    /\ \E fileName \in Texts : Deliver("OpenFile", <<fileName>>, OpenFile(fileName))
    /\ disp' = Append(disp, "pending")
    /\ pc' = "L26if"

\* the hypothesis "OpenFile may return any status"
AnyOpenFile ==
    /\ pc = "L26"
    /\ \E fileName \in Texts, r \in ErrorCode : Deliver("OpenFile", <<fileName>>, r)
    /\ disp' = Append(disp, "pending")
    /\ pc' = "L26if"

CheckOpenFile_NoReturn ==
    /\ pc = "L26if"
    /\ Examine
    /\ pc' = "L29"
    /\ UNCHANGED <<ret, exitCode, log, stdout>>

CheckOpenFile_OnlyFatal ==
    /\ pc = "L26if"
    /\ Examine
    /\ IF ret = "Fatal"
          THEN exitCode' = 1 /\ pc' = "ret27"
          ELSE pc' = "L29" /\ UNCHANGED exitCode
    /\ UNCHANGED <<ret, log, stdout>>

\* lines 26-27: if (... != ErrorCode::OK) return 1;
CheckOpenFile ==
    /\ pc = "L26if"
    /\ Examine
    /\ IF ret # "OK"
          THEN exitCode' = 1 /\ pc' = "ret27"
          ELSE pc' = "L29" /\ UNCHANGED exitCode
    /\ UNCHANGED <<ret, log, stdout>>

\* line 29: the call SendEmail("joe", "hello")
CallSendEmail ==
    /\ pc = "L29"
    /\ \E sendto \in Texts, text \in Texts :
           Deliver("SendEmail", <<sendto, text>>, SendEmail(sendto, text))
    /\ disp' = Append(disp, "pending")
    /\ pc' = "L29if"

\* the hypothesis "SendEmail may return any status"
AnySendEmail ==
    /\ pc = "L29"
    /\ \E sendto \in Texts, text \in Texts, r \in ErrorCode :
           Deliver("SendEmail", <<sendto, text>>, r)
    /\ disp' = Append(disp, "pending")
    /\ pc' = "L29if"

CheckSendEmail_Inverted ==
    /\ pc = "L29if"
    /\ Examine
    /\ IF ret = "OK"
          THEN exitCode' = 1 /\ pc' = "ret30"
          ELSE pc' = "L32" /\ UNCHANGED exitCode
    /\ UNCHANGED <<ret, log, stdout>>

CheckSendEmail_Unchecked ==
    /\ pc = "L29if"
    /\ Examine
    /\ pc' = "L32"
    /\ UNCHANGED <<ret, exitCode, log, stdout>>

CheckSendEmail_ReturnsCode ==
    /\ pc = "L29if"
    /\ Examine
    /\ IF ret # "OK"
          THEN /\ exitCode' = CASE ret = "Fatal" -> 1
                                [] ret = "System" -> 2
                                [] OTHER -> 3
               /\ pc' = "ret30"
          ELSE pc' = "L32" /\ UNCHANGED exitCode
    /\ UNCHANGED <<ret, log, stdout>>

\* lines 29-30: if (... != ErrorCode::OK) return 1;
CheckSendEmail ==
    /\ pc = "L29if"
    /\ Examine
    /\ IF ret # "OK"
          THEN exitCode' = 1 /\ pc' = "ret30"
          ELSE pc' = "L32" /\ UNCHANGED exitCode
    /\ UNCHANGED <<ret, log, stdout>>

\* line 32: SystemCall("cd .."); an expression statement: the returned
\* value is dropped, with neither a test nor a cast to void.
CallSystemCall ==
    /\ pc = "L32"
    /\ \E text \in Texts : Deliver("SystemCall", <<text>>, SystemCall(text))
    /\ disp' = Append(disp, "dropped")
    /\ pc' = "L33"

\* the hypothesis "SystemCall may return any status"
AnySystemCall ==
    /\ pc = "L32"
    /\ \E text \in Texts, r \in ErrorCode : Deliver("SystemCall", <<text>>, r)
    /\ disp' = Append(disp, "dropped")
    /\ pc' = "L33"

FallThrough_ChecksRet ==
    /\ pc = "L33"
    /\ exitCode' = IF ret # "OK" THEN 1 ELSE 0
    /\ pc' = "end33"
    /\ UNCHANGED <<ret, log, disp, stdout>>

\* line 33: control reaches the end of main, which returns 0
FallThrough ==
    /\ pc = "L33"
    /\ exitCode' = 0
    /\ pc' = "end33"
    /\ UNCHANGED <<ret, log, disp, stdout>>

Init ==
    /\ pc = "L26"
    /\ ret = "none"
    /\ exitCode = -1
    /\ log = <<>>
    /\ disp = <<>>
    /\ stdout = <<>>

Next ==
    \/ CallOpenFile
    \/ CheckOpenFile
    \/ CallSendEmail
    \/ CheckSendEmail
    \/ CallSystemCall
    \/ FallThrough

Spec == Init /\ [][Next]_vars

\* main is single-threaded and synchronous and every call returns: a step
\* that can be taken is taken.
FairSpec == Spec /\ WF_vars(Next)

NextAny ==
    \/ AnyOpenFile
    \/ CheckOpenFile
    \/ AnySendEmail
    \/ CheckSendEmail
    \/ AnySystemCall
    \/ FallThrough

SpecAny == Init /\ [][NextAny]_vars

FairSpecAny == SpecAny /\ WF_vars(NextAny)

----------------------------------------------------------------------------
(* The stubs on their own: any operation, any arguments, in any order.     *)

ApplyOpenFile ==
    /\ pc = "apply"
    /\ Len(log) < MaxCalls
    /\ \E fileName \in Texts : Deliver("OpenFile", <<fileName>>, OpenFile(fileName))
    /\ UNCHANGED <<pc, disp>>

ApplySendEmail ==
    /\ pc = "apply"
    /\ Len(log) < MaxCalls
    /\ \E sendto \in Texts, text \in Texts :
           Deliver("SendEmail", <<sendto, text>>, SendEmail(sendto, text))
    /\ UNCHANGED <<pc, disp>>

ApplySystemCall ==
    /\ pc = "apply"
    /\ Len(log) < MaxCalls
    /\ \E text \in Texts : Deliver("SystemCall", <<text>>, SystemCall(text))
    /\ UNCHANGED <<pc, disp>>

InitCalls ==
    /\ pc = "apply"
    /\ ret = "none"
    /\ exitCode = -1
    /\ log = <<>>
    /\ disp = <<>>
    /\ stdout = <<>>

NextCalls ==
    \/ ApplyOpenFile
    \/ ApplySendEmail
    \/ ApplySystemCall

SpecCalls == InitCalls /\ [][NextCalls]_vars

----------------------------------------------------------------------------
(* Helpers of the properties.                                              *)

\* The operations invoked so far, in order.
Ops == [i \in 1..Len(log) |-> log[i].op]

\* The driver's call order.
CallOrder == <<"OpenFile", "SendEmail", "SystemCall">>

\* Operation op has been called and returned a status other than OK.
Failed(op) == \E i \in 1..Len(log) : log[i].op = op /\ log[i].result # "OK"

\* Operation op has been called and returned OK.
Succeeded(op) == \E i \in 1..Len(log) : log[i].op = op /\ log[i].result = "OK"

\* Two log entries are the same call: the same operation, the same arguments.
SameCall(a, b) == a.op = b.op /\ a.args = b.args

----------------------------------------------------------------------------
(* The properties.                                                         *)

\* C1: for every input, each of OpenFile, SendEmail and SystemCall returns
\* OK: no call ever made returned Fatal, System or FileIssue.
C1_StubsReturnOK ==
    /\ \A i \in 1..Len(log) : log[i].result = "OK"
    /\ ret \in {"none", "OK"}

\* C1's case: OpenFile applied to the empty text and SendEmail applied to
\* arguments that are not main's literals.
C1_Witness ==
    /\ \E i \in 1..Len(log) : log[i].op = "OpenFile" /\ log[i].args = <<"">>
    /\ \E i \in 1..Len(log) : log[i].op = "SendEmail" /\ log[i].args = <<"cd ..", "">>

\* C2: with the stubs as written, main always ends, and it ends by falling
\* through the end of main with exit code 0, after invoking OpenFile,
\* SendEmail and SystemCall, having written nothing.
C2_ExitsZero ==
    /\ <>Terminated
    /\ [](Terminated => /\ pc = "end33"
                        /\ exitCode = 0
                        /\ Ops = CallOrder
                        /\ stdout = <<>>)

\* C2's case: main has fallen through its end.
C2_Witness ==
    pc = "end33" /\ exitCode = 0 /\ Len(log) = 3 /\ stdout = <<>>

\* C3: when OpenFile returns a status other than OK, or OpenFile returns OK
\* and SendEmail returns a status other than OK, then as soon as main has
\* tested that status it has exited with code 1.
C3_FailureExitsOne ==
    /\ (Failed("OpenFile") /\ pc # "L26if") => (pc = "ret27" /\ exitCode = 1)
    /\ (Succeeded("OpenFile") /\ Failed("SendEmail") /\ pc # "L29if")
           => (pc = "ret30" /\ exitCode = 1)

\* C3's case: OpenFile returned OK, SendEmail returned System, main exited.
C3_Witness ==
    /\ Terminated
    /\ Succeeded("OpenFile")
    /\ Len(log) = 2 /\ log[2].op = "SendEmail" /\ log[2].result = "System"
    /\ exitCode = 1

\* C4: every status an operation call produced is consumed by a condition
\* or explicitly discarded; none is silently dropped.
C4_NoSilentDiscard ==
    /\ \A i \in 1..Len(disp) : disp[i] # "dropped"
    /\ Terminated => \A i \in 1..Len(disp) : disp[i] \in {"checked", "voided"}

\* C6: the exit code is decided by the results of OpenFile and SendEmail
\* alone: it is 0 when both returned OK, whatever SystemCall returned, and 1
\* otherwise; so two runs that agree on those two results exit alike.
C6_ExitIgnoresSystemCall ==
    Terminated =>
        exitCode = IF Succeeded("OpenFile") /\ Succeeded("SendEmail") THEN 0 ELSE 1

\* C6's case: SystemCall returned Fatal and main exited with code 0.
C6_Witness ==
    /\ pc = "end33"
    /\ Len(log) = 3 /\ log[3].op = "SystemCall" /\ log[3].result = "Fatal"
    /\ exitCode = 0

\* C7: the operations are invoked in the order OpenFile, SendEmail,
\* SystemCall, each at most once, and every call but the last one made
\* returned OK: nothing is invoked after a failure was observed.
C7_OrderAndStop ==
    /\ Len(log) <= Len(CallOrder)
    /\ Ops = SubSeq(CallOrder, 1, Len(log))
    /\ \A i \in 1..(Len(log) - 1) : log[i].result = "OK"
    /\ pc = "ret27" => Len(log) = 1
    /\ pc = "ret30" => Len(log) = 2

\* C7's case: OpenFile failed and main stopped after that single call.
C7_Witness ==
    pc = "ret27" /\ Len(log) = 1 /\ log[1].result = "Fatal"

\* C8: whichever of Fatal, System and FileIssue a checked operation
\* returns, main exits with code 1 after the same calls: OpenFile alone when
\* OpenFile failed, OpenFile and SendEmail when SendEmail failed.
C8_FailuresAlike ==
    \A s \in ErrorCode \ {"OK"} :
        /\ (Terminated /\ log[1].result = s)
               => (exitCode = 1 /\ Ops = <<"OpenFile">>)
        /\ (Terminated /\ Len(log) >= 2 /\ log[2].result = s)
               => (exitCode = 1 /\ Ops = <<"OpenFile", "SendEmail">>)

\* C8's case: OpenFile returned FileIssue and main exited.
C8_Witness ==
    Terminated /\ log[1].result = "FileIssue" /\ exitCode = 1

\* C9: a call produces exactly one status and hands it to its caller,
\* changes nothing else, and returns what every earlier call of the same
\* operation with the same arguments returned, whatever was called before.
C9_PureCalls ==
    [][Len(log') # Len(log) =>
          /\ Len(log') = Len(log) + 1
          /\ SubSeq(log', 1, Len(log)) = log
          /\ log'[Len(log')].result \in ErrorCode
          /\ ret' = log'[Len(log')].result
          /\ UNCHANGED <<pc, exitCode, disp, stdout>>
          /\ \A i \in 1..Len(log) :
                 SameCall(log[i], log'[Len(log')]) => log[i].result = ret']_vars

\* C9's case: the same SendEmail call made twice, with a call of another
\* operation in between.
C9_Witness ==
    /\ Len(log) = 3
    /\ log[1].op = "SendEmail"
    /\ log[2].op = "OpenFile"
    /\ SameCall(log[1], log[3])

\* C10: whatever the three operations return, main terminates, makes at most
\* three calls, and exits with code 0 or 1.
C10_TerminatesZeroOrOne ==
    /\ <>Terminated
    /\ [](Len(log) <= 3)
    /\ [](Terminated => exitCode \in {0, 1})
    /\ [](~Terminated => exitCode = -1)

\* C10's case: three calls were made, the last one returning FileIssue.
C10_Witness ==
    Terminated /\ Len(log) = 3 /\ ret = "FileIssue" /\ exitCode \in {0, 1}

====
